---- MODULE Spec2Model ----
(***************************************************************************)
(* Model of nonebot_plugin_gocqhttp/process/process.py: the GoCQProcess    *)
(* supervisor (daemon thread restart loop, start/stop/status/listen_log),  *)
(* the module-level REGISTERED_PROCESSES directory, the worker processes   *)
(* as the operating system shows them, and the asyncio loop that runs the  *)
(* listener coroutines.                                                    *)
(*                                                                         *)
(* The constructor is modelled in two parts.  Construct(u) is lines 75-78, *)
(* the registration, for any account.  The instance whose life cycle the   *)
(* other actions follow has the fields that lines 80-124 give it.          *)
(*                                                                         *)
(* ret holds what the call that finished in the last step returned or      *)
(* raised; every other step clears it.  For a constructor call it also     *)
(* holds the uin and whether the call before it was a constructor call     *)
(* for the same uin.                                                       *)
(***************************************************************************)
EXTENDS Integers, Sequences, FiniteSets, TLC

\* ---------------------------------------------------------------- bounds
MaxSpawns == 2          \* Popen calls that one run of the model follows
MaxLines == 2           \* lines that one run of the model reads (log_counter)

\* ------------------------------------------------------------- constants
NoProcess == 0                  \* self.process is None (line 64)
NoneCode == 0 - 100             \* Popen.returncode is None (line 153)
ExitCodes == {0, 1}             \* exit statuses of a worker
Uins == {1, 2}                  \* account.uin values
ProcessLogListener == "process_log"   \* the closure of lines 90-96
BadListener == "bad"            \* a listener whose coroutine raises
Listeners == {ProcessLogListener, BadListener}
MaxRestartsChoices == {0 - 1, 0, 1}   \* max_restarts arguments
Workers == 1..MaxSpawns         \* the n-th Popen object and its child; pid = n

\* A str is the sequence of its characters.  An Optional value is <<>>
\* for None and <<v>> for v.
Digits == {"0", "1", "2", "3", "4", "5", "6", "7", "8", "9"}
Upper == {"A", "B", "C", "D", "E", "F", "G", "H", "I", "J", "K", "L", "M",
          "N", "O", "P", "Q", "R", "S", "T", "U", "V", "W", "X", "Y", "Z"}
Whitespace == {" ", "\t", "\n"}
None == <<>>

\* Lines that a worker writes.
TwoDigits(n) == <<ToString(n \div 10), ToString(n % 10)>>
FourDigits(n) == TwoDigits(n \div 100) \o TwoDigits(n % 100)
TimeText(y, mo, d, h, mi, sec) ==
    FourDigits(y) \o <<"-">> \o TwoDigits(mo) \o <<"-">> \o TwoDigits(d)
        \o <<" ">> \o TwoDigits(h) \o <<":">> \o TwoDigits(mi)
        \o <<":">> \o TwoDigits(sec)
Times ==
    {TimeText(2022, 1, 31, 0, 0, 0), TimeText(2024, 2, 29, 23, 59, 59),
     TimeText(2023, 2, 29, 12, 0, 0), TimeText(2022, 13, 1, 0, 0, 0),
     TimeText(2022, 4, 31, 0, 0, 0), TimeText(0, 1, 1, 0, 0, 0),
     TimeText(2022, 1, 1, 24, 0, 0), TimeText(2022, 1, 1, 0, 60, 0),
     TimeText(2022, 1, 1, 0, 0, 60), TimeText(9999, 99, 99, 99, 99, 99),
     <<"2", "0", "2", "2", "-", "1", "-", "1", " ", "0", ":", "0", ":", "0">>}
Levels ==
    {<<"I", "N", "F", "O">>, <<"W", "A", "R", "N", "I", "N", "G">>, <<"X">>,
     <<>>, <<"i", "n", "f", "o">>}
Messages == {<<>>, <<"o", "k">>, <<"a", "]", ":", " ", "b">>}
Lines ==
    {pre \o <<"[">> \o t \o <<"]", " ", "[">> \o lv \o <<"]", ":", " ">>
         \o msg \o post :
        pre \in {<<>>, <<" ">>}, t \in Times, lv \in Levels, msg \in Messages,
        post \in {<<>>, <<"\n">>, <<" ", "\t", "\n">>}}
    \cup {<<>>, <<"\n">>, <<" ", "\n">>,
          <<"g", "a", "r", "b", "a", "g", "e", " ", "o", "u", "t", "p", "u",
            "t", "\n">>,
          <<"[">> \o TimeText(2022, 1, 31, 0, 0, 0)
              \o <<"]", " ", "[", "I", "N", "F", "O", "]", ":", "o", "k", "\n">>,
          <<"x", "[">> \o TimeText(2022, 1, 31, 0, 0, 0)
              \o <<"]", " ", "[", "I", "N", "F", "O", "]", ":", " ", "o", "k">>}

VARIABLES
    REGISTERED_PROCESSES,   \* line 28: uin -> instance (0: no entry)
    max_restarts,           \* self.max_restarts
    daemon_thread_running,  \* self.daemon_thread_running: "unset" | "true" | "false"
    process,                \* self.process: NoProcess or a worker
    log_listeners,          \* self.log_listeners
    log_counter,            \* self.log_counter
    restarted,              \* self.restarted
    tpc,                    \* where the daemon thread is
    loopIdx,                \* the loop variable `restarted` of line 99
    code,                   \* the local `code` of lines 104-106
    exc,                    \* the exception line 107 caught in this iteration
    iterUsed,               \* size of log_listeners when line 150 made its iterator
    iterTodo,               \* listeners the iterator has not yielded yet
    osState,                \* worker -> "none" | "running" | "zombie" | "reaped"
    exitStatus,             \* worker -> the status it exited with
    signalled,              \* worker -> SIGTERM was sent to it
    stdoutClosed,           \* worker -> its end of the pipe is closed
    emitted,                \* worker -> lines readline has returned from its pipe
    stopPc,                 \* where a stop() call is
    stopCalled,             \* stop() was called at least once
    ret,                    \* what the call that just finished returned or raised
    scheduled,              \* listener -> lines of the current worker queued for it
    queue                   \* coroutines the event loop has not run yet

threadVars == <<tpc, loopIdx, code, exc, iterUsed, iterTodo>>
fieldVars == <<max_restarts, daemon_thread_running, process, log_listeners,
               log_counter, restarted>>
osVars == <<osState, exitStatus, signalled, stdoutClosed, emitted>>
loopVars == <<scheduled, queue>>
vars == <<REGISTERED_PROCESSES, threadVars, fieldVars, osVars, stopPc,
          stopCalled, ret, loopVars>>

\* ---------------------------------------------------------- return values
Ret(op, tag) ==
    [op |-> op, tag |-> tag, pid |-> 0, status |-> "", code |-> NoneCode,
     total_logs |-> 0, restarts |-> 0, uin |-> 0, again |-> FALSE,
     output |-> <<>>, log |-> <<>>]

NoRet == Ret("none", "none")

\* RunningProcessInfo, lines 188-197
RunningProcessInfo(pid, st) ==
    [Ret("status", "Running") EXCEPT !.pid = pid, !.status = st,
        !.total_logs = log_counter, !.restarts = restarted]

\* StoppedProcessInfo, lines 199-204
StoppedProcessInfo(st, c) ==
    [Ret("status", "Stopped") EXCEPT !.status = st, !.code = c,
        !.total_logs = log_counter, !.restarts = restarted]

NumSpawned == Cardinality({w \in Workers : osState[w] # "none"})

\* ------------------------------------------------------------------ Init
Init ==
    /\ REGISTERED_PROCESSES = [u \in Uins |-> 0]
    /\ max_restarts \in MaxRestartsChoices
    /\ daemon_thread_running = "unset"
    /\ process = NoProcess
    /\ log_listeners = {ProcessLogListener}
    /\ log_counter = 0
    /\ restarted = 0
    /\ tpc = "unstarted"
    /\ loopIdx = 0
    /\ code = 0
    /\ exc = "none"
    /\ iterUsed = 0
    /\ iterTodo = {}
    /\ osState = [w \in Workers |-> "none"]
    /\ exitStatus = [w \in Workers |-> NoneCode]
    /\ signalled = [w \in Workers |-> FALSE]
    /\ stdoutClosed = [w \in Workers |-> FALSE]
    /\ emitted = [w \in Workers |-> 0]
    /\ stopPc = "idle"
    /\ stopCalled = FALSE
    /\ ret = NoRet
    /\ scheduled = [l \in Listeners |-> <<>>]
    /\ queue = <<>>

\* ------------------------------------------------- Supervisor Directory
\* Lines 75-78.  Line 76 reads self.account, which only line 80 assigns
\* and the class does not define: for an unregistered uin the constructor
\* raises AttributeError before the dict is written.
Construct(u) ==
    /\ ret' = [Ret("init", IF REGISTERED_PROCESSES[u] = 0
                           THEN "AttributeError" ELSE "ValueError")
                 EXCEPT !.uin = u, !.again = (ret.op = "init" /\ ret.uin = u)]
    /\ UNCHANGED <<REGISTERED_PROCESSES, threadVars, fieldVars, osVars, stopPc,
                   stopCalled, loopVars>>

\* ------------------------------------------------------ subprocess.Popen
\* Popen.returncode of the handle of worker w.  Only Popen.poll/wait reap
\* the child, and they store its status: the handle has a returncode
\* exactly when the child was reaped.
returncode(w) == IF osState[w] = "reaped" THEN exitStatus[w] ELSE NoneCode

\* Popen.poll(): waitpid reaps an exited child.
Poll(w) == IF osState[w] = "zombie" THEN "reaped" ELSE osState[w]

\* Popen.terminate() (lines 154, 171): send_signal polls first and sends
\* SIGTERM only to a child that has not exited.
Terminate(w) ==
    /\ osState' = [osState EXCEPT ![w] = Poll(w)]
    /\ signalled' = [signalled EXCEPT ![w] = @ \/ osState[w] = "running"]
    /\ UNCHANGED <<exitStatus, stdoutClosed, emitted>>

\* ------------------------------------------------------------ log lines
RECURSIVE lstrip(_)
lstrip(s) ==
    IF s # <<>> /\ Head(s) \in Whitespace THEN lstrip(Tail(s)) ELSE s

RECURSIVE rstrip(_)
rstrip(s) ==
    IF s # <<>> /\ s[Len(s)] \in Whitespace
    THEN rstrip(SubSeq(s, 1, Len(s) - 1)) ELSE s

\* str.strip(), line 136
strip(s) == rstrip(lstrip(s))

\* The characters of s from position i on that [A-Z]+ can take.
RECURSIVE UpperRun(_, _)
UpperRun(s, i) ==
    IF i <= Len(s) /\ s[i] \in Upper THEN 1 + UpperRun(s, i + 1) ELSE 0

\* Where $ matches: at the end, or before a newline that ends the string.
DollarAt(s) == IF s # <<>> /\ s[Len(s)] = "\n" THEN Len(s) - 1 ELSE Len(s)

\* LOG_REGEX.match(s), lines 19-25 and 144: None, or the groups.  The
\* lazy [A-Z]+? has to stop at the first "]" and no upper-case letter is
\* one, so the level is the whole run of upper-case letters.
LOG_REGEX(s) ==
    LET k == UpperRun(s, 24)
        e == DollarAt(s)
    IN  IF /\ Len(s) >= 27
           /\ s[1] = "["
           /\ \A i \in {2, 3, 4, 5, 7, 8, 10, 11, 13, 14, 16, 17, 19, 20} :
                 s[i] \in Digits
           /\ s[6] = "-" /\ s[9] = "-" /\ s[12] = " "
           /\ s[15] = ":" /\ s[18] = ":"
           /\ s[21] = "]" /\ s[22] = " " /\ s[23] = "["
           /\ k >= 1
           /\ e >= 26 + k
           /\ s[24 + k] = "]" /\ s[25 + k] = ":" /\ s[26 + k] = " "
           /\ \A i \in (27 + k)..e : s[i] # "\n"
        THEN <<[time |-> SubSeq(s, 2, 20),
                level |-> SubSeq(s, 24, 23 + k),
                message |-> SubSeq(s, 27 + k, e)]>>
        ELSE None

DigitValue(c) == CHOOSE n \in 0..9 : c = ToString(n)

RECURSIVE int(_)
int(s) ==
    IF s = <<>> THEN 0
    ELSE 10 * int(SubSeq(s, 1, Len(s) - 1)) + DigitValue(s[Len(s)])

IsLeap(y) == y % 4 = 0 /\ (y % 100 # 0 \/ y % 400 = 0)

DaysInMonth(y, m) ==
    IF m = 2 THEN (IF IsLeap(y) THEN 29 ELSE 28)
    ELSE IF m \in {4, 6, 9, 11} THEN 30 ELSE 31

\* The datetime that pydantic makes of the time group for the field of
\* line 54: datetime(year, month, day, hour, minute, second), or None
\* where that constructor raises ValueError.
parse_datetime(t) ==
    LET y == int(SubSeq(t, 1, 4))
        mo == int(SubSeq(t, 6, 7))
        d == int(SubSeq(t, 9, 10))
        h == int(SubSeq(t, 12, 13))
        mi == int(SubSeq(t, 15, 16))
        sec == int(SubSeq(t, 18, 19))
    IN  IF /\ y >= 1
           /\ mo \in 1..12
           /\ d >= 1 /\ d <= DaysInMonth(y, mo)
           /\ h <= 23 /\ mi <= 59 /\ sec <= 59
        THEN <<[year |-> y, month |-> mo, day |-> d,
                hour |-> h, minute |-> mi, second |-> sec]>>
        ELSE None

\* Lines 136 and 144-149 for the line readline returned: the ProcessLog,
\* or the ValidationError that ProcessLog(...) raises for a time group
\* that is no datetime.  A time of None stands for the default of line
\* 54, datetime.now().
ProcessLog(output) ==
    LET raw == strip(output)
        log_matched == LOG_REGEX(raw)
    IN  IF log_matched = None
        THEN [Ret("ProcessLog", "ok") EXCEPT !.output = output,
                !.log = <<[raw |-> raw, time |-> None, level |-> None,
                           message |-> None]>>]
        ELSE IF parse_datetime(log_matched[1].time) = None
        THEN [Ret("ProcessLog", "ValidationError") EXCEPT !.output = output]
        ELSE [Ret("ProcessLog", "ok") EXCEPT !.output = output,
                !.log = <<[raw |-> raw,
                           time |-> parse_datetime(log_matched[1].time),
                           level |-> <<log_matched[1].level>>,
                           message |-> <<log_matched[1].message>>]>>]

\* Lines 136 and 144-149 applied to one line, on their own.
ParseLine(output) ==
    /\ ret' = ProcessLog(output)
    /\ UNCHANGED <<REGISTERED_PROCESSES, threadVars, fieldVars, osVars, stopPc,
                   stopCalled, loopVars>>

\* ------------------------------------------------------- daemon thread
\* LoopContinues with the budget test of line 102 off by one.
LoopContinues_offByOne ==
    /\ daemon_thread_running = "true"
    /\ ~(max_restarts >= 0 /\ loopIdx > max_restarts)

\* LoopContinues without the test max_restarts >= 0 of line 102.
LoopContinues_noUnbounded ==
    /\ daemon_thread_running = "true"
    /\ ~(loopIdx >= max_restarts)

\* Lines 100-103: the run flag and the restart budget.
LoopContinues ==
    /\ daemon_thread_running = "true"
    /\ ~(max_restarts >= 0 /\ loopIdx >= max_restarts)

\* Lines 99-104.
ThreadLoop ==
    /\ tpc = "loop"
    /\ tpc' = IF LoopContinues THEN "popen" ELSE "done"
    /\ ret' = NoRet
    /\ UNCHANGED <<loopIdx, code, exc, iterUsed, iterTodo>>
    /\ UNCHANGED <<REGISTERED_PROCESSES, fieldVars, osVars, stopPc, stopCalled,
                   loopVars>>

\* What is left of a Popen object once self.process no longer refers to
\* it: its pipe and its returncode go with it, and of a child that was
\* reaped nothing remains; a child that was not reaped lives on.
Drop(f, init) ==
    [w \in Workers |-> IF w = process THEN init ELSE f[w]]

DropReaped(f, init) ==
    [w \in Workers |->
        IF w = process /\ osState[w] = "reaped" THEN init ELSE f[w]]

\* Lines 127-134: Popen starts the next worker and the handle is stored
\* in self.process, replacing the one before.
ThreadPopen ==
    /\ tpc = "popen"
    /\ NumSpawned < MaxSpawns
    /\ process' = NumSpawned + 1
    /\ osState' = [osState EXCEPT ![NumSpawned + 1] = "running"]
    /\ exitStatus' = DropReaped(exitStatus, NoneCode)
    /\ signalled' = DropReaped(signalled, FALSE)
    /\ stdoutClosed' = Drop(stdoutClosed, FALSE)
    /\ emitted' = Drop(emitted, 0)
    /\ scheduled' = [l \in Listeners |-> <<>>]
    /\ tpc' = "readline"
    /\ ret' = NoRet
    /\ UNCHANGED <<loopIdx, code, exc, iterUsed, iterTodo>>
    /\ UNCHANGED <<max_restarts, daemon_thread_running, log_listeners,
                   log_counter, restarted>>
    /\ UNCHANGED <<REGISTERED_PROCESSES, stopPc, stopCalled, queue>>

\* Lines 135-150: readline returns the next line the worker wrote; it is
\* counted, turned into a ProcessLog, and the iteration over
\* self.log_listeners begins.
ThreadReadLine ==
    /\ tpc = "readline"
    /\ log_counter < MaxLines
    /\ emitted' = [emitted EXCEPT ![process] = @ + 1]
    /\ log_counter' = log_counter + 1
    /\ iterUsed' = Cardinality(log_listeners)
    /\ iterTodo' = log_listeners
    /\ tpc' = "iter"
    /\ ret' = NoRet
    /\ UNCHANGED <<loopIdx, code, exc>>
    /\ UNCHANGED <<max_restarts, daemon_thread_running, process, log_listeners,
                   restarted>>
    /\ UNCHANGED <<osState, exitStatus, signalled, stdoutClosed>>
    /\ UNCHANGED <<REGISTERED_PROCESSES, stopPc, stopCalled, loopVars>>

\* Lines the worker can write for which line 146 raises.
InvalidLines == {output \in Lines : ProcessLog(output).tag # "ok"}

\* Lines 135-146 for a line whose ProcessLog(...) raises: the line was
\* counted at line 143, the ValidationError is caught at line 107.
ThreadReadLineInvalid ==
    /\ tpc = "readline"
    /\ log_counter < MaxLines
    /\ InvalidLines # {}
    /\ emitted' = [emitted EXCEPT ![process] = @ + 1]
    /\ log_counter' = log_counter + 1
    /\ tpc' = "warn"
    /\ exc' = "ValidationError"
    /\ code' = 0
    /\ ret' = NoRet
    /\ UNCHANGED <<loopIdx, iterUsed, iterTodo>>
    /\ UNCHANGED <<max_restarts, daemon_thread_running, process, log_listeners,
                   restarted>>
    /\ UNCHANGED <<osState, exitStatus, signalled, stdoutClosed>>
    /\ UNCHANGED <<REGISTERED_PROCESSES, stopPc, stopCalled, loopVars>>

\* Schedule with the listener's body run by the reader itself: what
\* BadListener raises ends the iteration of line 150 and is caught at
\* line 107.
Schedule_inline(l) ==
    IF l = BadListener
    THEN /\ tpc' = "warn"
         /\ exc' = "ListenerFailure"
         /\ code' = 0
         /\ iterUsed' = 0
         /\ iterTodo' = {}
         /\ UNCHANGED loopVars
    ELSE /\ scheduled' = [scheduled EXCEPT ![l] = Append(@, emitted[process])]
         /\ queue' = Append(queue, l)
         /\ iterTodo' = iterTodo \ {l}
         /\ tpc' = "iter"
         /\ UNCHANGED <<code, exc, iterUsed>>

\* Line 151 for one listener: listener(log_model) builds the coroutine
\* object (its body does not run here) and run_coroutine_threadsafe
\* queues it on self.loop.
Schedule(l) ==
    /\ scheduled' = [scheduled EXCEPT ![l] = Append(@, emitted[process])]
    /\ queue' = Append(queue, l)
    /\ iterTodo' = iterTodo \ {l}
    /\ tpc' = "iter"
    /\ UNCHANGED <<code, exc, iterUsed>>

\* Line 150, one step of the set iterator: it raises RuntimeError when
\* the set changed size since the iterator was made (caught at line 107),
\* ends when nothing is left, and yields some remaining element otherwise.
ThreadIterNext ==
    /\ tpc = "iter"
    /\ IF Cardinality(log_listeners) # iterUsed
       THEN /\ tpc' = "warn"
            /\ exc' = "RuntimeError"
            /\ code' = 0
            /\ iterUsed' = 0
            /\ iterTodo' = {}
            /\ UNCHANGED loopVars
       ELSE IF iterTodo = {}
       THEN /\ tpc' = "readline"
            /\ iterUsed' = 0
            /\ UNCHANGED <<code, exc, iterTodo, loopVars>>
       ELSE \E l \in iterTodo : Schedule(l)
    /\ ret' = NoRet
    /\ UNCHANGED loopIdx
    /\ UNCHANGED <<REGISTERED_PROCESSES, fieldVars, osVars, stopPc, stopCalled>>

\* Lines 135, 153, 157: readline returns "" at end of file; a handle that
\* already has a returncode is returned from directly.
ThreadEof ==
    /\ tpc = "readline"
    /\ stdoutClosed[process]
    /\ IF returncode(process) = NoneCode
       THEN tpc' = "terminate" /\ code' = code
       ELSE tpc' = "warn" /\ code' = returncode(process)
    /\ ret' = NoRet
    /\ UNCHANGED <<loopIdx, exc, iterUsed, iterTodo>>
    /\ UNCHANGED <<REGISTERED_PROCESSES, fieldVars, osVars, stopPc, stopCalled,
                   loopVars>>

\* Line 154.
ThreadTerminate ==
    /\ tpc = "terminate"
    /\ Terminate(process)
    /\ tpc' = "wait"
    /\ ret' = NoRet
    /\ UNCHANGED <<loopIdx, code, exc, iterUsed, iterTodo>>
    /\ UNCHANGED <<REGISTERED_PROCESSES, fieldVars, stopPc, stopCalled, loopVars>>

\* Lines 155-157: wait() returns once the child has exited.
ThreadWait ==
    /\ tpc = "wait"
    /\ osState[process] # "running"
    /\ osState' = [osState EXCEPT ![process] = "reaped"]
    /\ code' = exitStatus[process]
    /\ tpc' = "warn"
    /\ ret' = NoRet
    /\ UNCHANGED <<loopIdx, exc, iterUsed, iterTodo>>
    /\ UNCHANGED <<exitStatus, signalled, stdoutClosed, emitted>>
    /\ UNCHANGED <<REGISTERED_PROCESSES, fieldVars, stopPc, stopCalled, loopVars>>

\* ThreadWaitTimeout with nothing catching the TimeoutExpired: the thread
\* ends.
ThreadWaitTimeout_uncaught ==
    /\ tpc = "wait"
    /\ osState[process] = "running"
    /\ exc' = "TimeoutExpired"
    /\ code' = 0
    /\ tpc' = "done"
    /\ ret' = NoRet
    /\ UNCHANGED <<loopIdx, iterUsed, iterTodo>>
    /\ UNCHANGED <<REGISTERED_PROCESSES, fieldVars, osVars, stopPc, stopCalled,
                   loopVars>>

\* Line 155 when the child still runs after kill_timeout:
\* subprocess.TimeoutExpired, caught at line 107.
ThreadWaitTimeout ==
    /\ tpc = "wait"
    /\ osState[process] = "running"
    /\ exc' = "TimeoutExpired"
    /\ code' = 0
    /\ tpc' = "warn"
    /\ ret' = NoRet
    /\ UNCHANGED <<loopIdx, iterUsed, iterTodo>>
    /\ UNCHANGED <<REGISTERED_PROCESSES, fieldVars, osVars, stopPc, stopCalled,
                   loopVars>>

\* Lines 111-116: the warning is logged and self.restarted incremented.
ThreadWarn ==
    /\ tpc = "warn"
    /\ restarted' = restarted + 1
    /\ tpc' = "sleep"
    /\ code' = 0
    /\ exc' = "none"
    /\ ret' = NoRet
    /\ UNCHANGED <<loopIdx, iterUsed, iterTodo>>
    /\ UNCHANGED <<max_restarts, daemon_thread_running, process, log_listeners,
                   log_counter>>
    /\ UNCHANGED <<REGISTERED_PROCESSES, osVars, stopPc, stopCalled, loopVars>>

\* Line 117, then count() yields the next value (line 99).
ThreadSleep ==
    /\ tpc = "sleep"
    /\ loopIdx' = loopIdx + 1
    /\ tpc' = "loop"
    /\ ret' = NoRet
    /\ UNCHANGED <<code, exc, iterUsed, iterTodo>>
    /\ UNCHANGED <<REGISTERED_PROCESSES, fieldVars, osVars, stopPc, stopCalled,
                   loopVars>>

\* ------------------------------------------------------ worker processes
\* The running worker whose output is read closes its stdout and keeps
\* running.
WorkerCloseStdout(w) ==
    /\ w = process
    /\ osState[w] = "running"
    /\ ~stdoutClosed[w]
    /\ stdoutClosed' = [stdoutClosed EXCEPT ![w] = TRUE]
    /\ ret' = NoRet
    /\ UNCHANGED <<osState, exitStatus, signalled, emitted>>
    /\ UNCHANGED <<REGISTERED_PROCESSES, threadVars, fieldVars, stopPc,
                   stopCalled, loopVars>>

\* A running worker exits, on its own or because of SIGTERM, with status
\* c.  Its pipe end closes; it stays in the process table as a zombie
\* until its parent waits for it.  (The status and the pipe of a child
\* whose handle was dropped are never read, and are not kept.)
WorkerExit(w, c) ==
    /\ osState[w] = "running"
    /\ osState' = [osState EXCEPT ![w] = "zombie"]
    /\ exitStatus' = [exitStatus EXCEPT ![w] = IF w = process THEN c ELSE @]
    /\ stdoutClosed' = [stdoutClosed EXCEPT ![w] = (w = process)]
    /\ ret' = NoRet
    /\ UNCHANGED <<signalled, emitted>>
    /\ UNCHANGED <<REGISTERED_PROCESSES, threadVars, fieldVars, stopPc,
                   stopCalled, loopVars>>

\* ----------------------------------------------------------------- start
\* Lines 164-165: the run flag is set, then Thread.start() starts the
\* thread or raises RuntimeError for a thread that was started before.
Start ==
    /\ daemon_thread_running' = "true"
    /\ IF tpc = "unstarted"
       THEN tpc' = "loop"
       ELSE tpc' = tpc
    /\ ret' = NoRet
    /\ UNCHANGED <<loopIdx, code, exc, iterUsed, iterTodo>>
    /\ UNCHANGED <<max_restarts, process, log_listeners, log_counter, restarted>>
    /\ UNCHANGED <<REGISTERED_PROCESSES, osVars, stopPc, stopCalled, loopVars>>

\* ------------------------------------------------------------------ stop
\* Line 169.
StopClearFlag ==
    /\ stopPc = "idle"
    /\ daemon_thread_running' = "false"
    /\ stopCalled' = TRUE
    /\ stopPc' = "terminate"
    /\ ret' = NoRet
    /\ UNCHANGED <<max_restarts, process, log_listeners, log_counter, restarted>>
    /\ UNCHANGED <<REGISTERED_PROCESSES, threadVars, osVars, loopVars>>

\* StopTerminate with a join that has no timeout: stop() returns only
\* once the thread has ended.
StopTerminate_joinForever ==
    /\ stopPc = "terminate"
    /\ tpc \in {"unstarted", "done"}
    /\ IF process # NoProcess
       THEN Terminate(process)
       ELSE UNCHANGED osVars
    /\ stopPc' = "idle"
    /\ ret' = NoRet
    /\ UNCHANGED <<REGISTERED_PROCESSES, threadVars, fieldVars, stopCalled,
                   loopVars>>

\* Lines 170-174: the live handle is sent terminate(); then the thread
\* is not alive, or join returns because the thread ended or because
\* stop_timeout passed, and stop() returns.
StopTerminate ==
    /\ stopPc = "terminate"
    /\ IF process # NoProcess
       THEN Terminate(process)
       ELSE UNCHANGED osVars
    /\ stopPc' = "idle"
    /\ ret' = NoRet
    /\ UNCHANGED <<REGISTERED_PROCESSES, threadVars, fieldVars, stopCalled,
                   loopVars>>

\* ---------------------------------------------------------------- status
\* psutil.Process(pid), line 180: the pid is in the process table while
\* the worker runs or is a zombie; after it was reaped only when the
\* system gave the pid to another process (reused).
PidExists(w, reused) ==
    \/ osState[w] \in {"running", "zombie"}
    \/ osState[w] = "reaped" /\ reused

\* process_status.status(), lines 186 and 200
PsStatus(w) == IF osState[w] = "zombie" THEN "zombie" ELSE "running"

\* StatusResult without the test of line 178 raising.
StatusResult_noRaise(reused) ==
    IF process = NoProcess
        THEN StoppedProcessInfo("", 0)
    ELSE IF ~PidExists(process, reused)
        THEN Ret("status", "NoSuchProcess")
    ELSE IF returncode(process) = NoneCode
        THEN RunningProcessInfo(process, PsStatus(process))
    ELSE StoppedProcessInfo(PsStatus(process), returncode(process))

\* Lines 178-204.
StatusResult(reused) ==
    IF process = NoProcess
        THEN Ret("status", "NotStarted")
    ELSE IF ~PidExists(process, reused)
        THEN Ret("status", "NoSuchProcess")
    ELSE IF returncode(process) = NoneCode
        THEN RunningProcessInfo(process, PsStatus(process))
    ELSE StoppedProcessInfo(PsStatus(process), returncode(process))

Status ==
    /\ \E reused \in BOOLEAN : ret' = StatusResult(reused)
    /\ UNCHANGED <<REGISTERED_PROCESSES, threadVars, fieldVars, osVars, stopPc,
                   stopCalled, loopVars>>

\* ------------------------------------------------------------ listen_log
\* listen_log without line 209: the call returns None.
listen_log_returnsNone(listeners, l) ==
    [log_listeners |-> listeners \cup {l}, result |-> "None"]

\* Lines 208-209 as a function of the set and the argument: set.add, and
\* the value returned.
listen_log(listeners, l) ==
    [log_listeners |-> listeners \cup {l}, result |-> l]

\* Lines 207-209, called as line 96 calls it: the caller drops the value
\* returned.
ListenLog(l) ==
    /\ log_listeners' = listen_log(log_listeners, l).log_listeners
    /\ ret' = NoRet
    /\ UNCHANGED <<max_restarts, daemon_thread_running, process, log_counter,
                   restarted>>
    /\ UNCHANGED <<REGISTERED_PROCESSES, threadVars, osVars, stopPc, stopCalled,
                   loopVars>>

\* ------------------------------------------------------------ event loop
\* The loop runs the oldest queued coroutine.  Whether it returns or
\* raises (as every coroutine of BadListener does), the outcome goes to
\* the future run_coroutine_threadsafe returned, which line 151 drops.
RunCallback ==
    /\ queue # <<>>
    /\ queue' = Tail(queue)
    /\ ret' = NoRet
    /\ UNCHANGED scheduled
    /\ UNCHANGED <<REGISTERED_PROCESSES, threadVars, fieldVars, osVars, stopPc,
                   stopCalled>>

\* ------------------------------------------------------------------ Next
Thread ==
    \/ ThreadLoop
    \/ ThreadPopen
    \/ ThreadReadLine
    \/ ThreadIterNext
    \/ ThreadEof
    \/ ThreadTerminate
    \/ ThreadWait
    \/ ThreadWaitTimeout
    \/ ThreadWarn
    \/ ThreadSleep

Worker ==
    \/ \E w \in Workers : WorkerCloseStdout(w)
    \/ \E w \in Workers, c \in ExitCodes : WorkerExit(w, c)

Stop ==
    \/ StopClearFlag
    \/ StopTerminate

Lifecycle == Thread \/ Worker \/ Start \/ Stop

Next ==
    \/ Lifecycle
    \/ ThreadReadLineInvalid
    \/ \E u \in Uins : Construct(u)
    \/ Status
    \/ \E l \in Listeners : ListenLog(l)
    \/ RunCallback

Spec == Init /\ [][Next]_vars

\* The supervisor and the callers of its constructor and of status(),
\* with a worker all of whose lines line 146 accepts.
NextApi ==
    \/ Lifecycle
    \/ \E u \in Uins : Construct(u)
    \/ Status

ApiSpec == Init /\ [][NextApi]_vars

\* The supervisor, callers of listen_log() and the event loop, with a
\* worker all of whose lines line 146 accepts.
NextDispatch ==
    \/ Lifecycle
    \/ \E l \in Listeners : ListenLog(l)
    \/ RunCallback

DispatchSpec == Init /\ [][NextDispatch]_vars

\* The supervisor with a worker that also writes lines line 146 raises
\* for.  The steps of the daemon thread that wait for nothing but the
\* scheduler are taken in the end: all but the readline that returns a
\* line, which waits for the worker to write one.  So is the second step
\* of a stop() call: join returns when stop_timeout has passed, if not
\* before.
NextSupervise ==
    \/ Lifecycle
    \/ ThreadReadLineInvalid

Fairness ==
    /\ WF_vars(ThreadLoop)
    /\ WF_vars(ThreadPopen)
    /\ WF_vars(ThreadIterNext)
    /\ WF_vars(ThreadEof)
    /\ WF_vars(ThreadTerminate)
    /\ WF_vars(ThreadWait \/ ThreadWaitTimeout)
    /\ WF_vars(ThreadWarn)
    /\ WF_vars(ThreadSleep)
    /\ WF_vars(StopTerminate)

SuperviseSpec == Init /\ [][NextSupervise]_vars /\ Fairness

\* The same supervisor and worker, and callers of listen_log(): every
\* way an iteration of the loop of line 99 fails.
NextFailures ==
    \/ NextSupervise
    \/ \E l \in Listeners : ListenLog(l)

FailureSpec == Init /\ [][NextFailures]_vars

\* Lines 136 and 144-149 as a function of the line.
NextParse == \E output \in Lines : ParseLine(output)

ParseSpec == Init /\ [][NextParse]_vars

\* ---------------------------------------------------------------- claims
Bounded == max_restarts >= 0

Reading == {"readline", "iter", "terminate", "wait"}

\* C1: with max_restarts = k >= 0, start() called and stop() never
\* called, the loop ends with the worker spawned k+1 times and
\* self.restarted = k; a status() call then reports Stopped.
C1_SpawnsKPlusOne ==
    (Bounded /\ ~stopCalled /\ tpc = "done")
        => /\ NumSpawned = max_restarts + 1
           /\ restarted = max_restarts
           /\ (ret.op = "status" => ret.tag = "Stopped")

\* C2: with max_restarts >= 0, self.restarted never exceeds max_restarts;
\* it changes only by the increment of line 116, once for every worker
\* run the loop leaves; once it equals max_restarts no worker is spawned
\* any more and the only steps left to the thread end the loop.
C2_Step ==
    /\ Bounded => restarted' <= max_restarts
    /\ restarted' = IF tpc = "warn" /\ tpc' # "warn"
                    THEN restarted + 1 ELSE restarted
    /\ (tpc \in Reading /\ tpc' \notin Reading) => tpc' = "warn"
    /\ (Bounded /\ restarted >= max_restarts) => NumSpawned' = NumSpawned
    /\ (Bounded /\ restarted' = max_restarts /\ tpc' # "unstarted")
          => /\ tpc' \in {"sleep", "loop", "done"}
             /\ tpc' = "loop" => ~LoopContinues'

C2_RestartBudget == [][C2_Step]_vars

\* The worker exited on its own, the loop reaped it and counted the exit,
\* and with the budget of 1 used up the loop ended.
C2_Witness ==
    /\ max_restarts = 1
    /\ restarted = 1
    /\ NumSpawned = 1
    /\ osState[1] = "reaped"
    /\ tpc = "done"
    /\ ~stopCalled

\* C3: once stop() has returned (and no later start() set the flag
\* again), every worker that is running has been sent a terminate signal.
C3_StopSignalsEveryWorker ==
    (stopCalled /\ stopPc = "idle" /\ daemon_thread_running = "false")
        => \A w \in Workers : osState[w] = "running" => signalled[w]

\* C4: a constructor call for a uin that REGISTERED_PROCESSES does not
\* hold succeeds, and the directory then maps the uin to the instance.
C4_RegisterSucceeds ==
    [][(ret'.op = "init" /\ REGISTERED_PROCESSES[ret'.uin] = 0)
          => (ret'.tag = "ok" /\ REGISTERED_PROCESSES'[ret'.uin] # 0)]_vars

C6_StatusBeforeStart ==
    [][(ret'.op = "status" /\ tpc = "unstarted")
          => /\ ret' = Ret("status", "NotStarted")
             /\ UNCHANGED <<REGISTERED_PROCESSES, threadVars, fieldVars, osVars,
                            stopPc, stopCalled, loopVars>>]_vars

C6_Witness ==
    /\ ret.op = "status"
    /\ ret.tag = "NotStarted"
    /\ tpc = "unstarted"
    /\ process = NoProcess

\* C7: a status() call made after start() returned and before any worker
\* has exited returns a Running snapshot with a positive pid.
C7_RunningAfterStart ==
    (/\ ret.op = "status"
     /\ tpc # "unstarted"
     /\ \A w \in Workers : osState[w] \in {"none", "running"})
        => (ret.tag = "Running" /\ ret.pid > 0)

\* C8: a status() call on a started supervisor returns Stopped, with the
\* handle's returncode and the two counters, exactly when the current
\* handle has a returncode, and Running exactly when it has none.
C8_StoppedIffReturncode ==
    (ret.op = "status" /\ process # NoProcess)
        => IF returncode(process) # NoneCode
           THEN ret = StoppedProcessInfo(ret.status, returncode(process))
           ELSE ret = RunningProcessInfo(ret.pid, ret.status)

\* C9: when the loop is done with a worker that has exited, the listener
\* registered before its first line (process_log) was scheduled exactly
\* once for each of the lines read from it, in the order they were read.
C9_EveryLineDispatched ==
    (/\ process # NoProcess
     /\ tpc \in {"warn", "sleep", "loop", "popen", "done"}
     /\ osState[process] \in {"zombie", "reaped"})
        => scheduled[ProcessLogListener] = [i \in 1..emitted[process] |-> i]

\* C10: a coroutine of a listener that raises changes nothing of the
\* reader or the supervisor and leaves the other queued coroutines queued;
\* the iteration of line 150 ends early only because the set changed
\* size, and when it ends normally every registered listener, whatever
\* the others do, was scheduled for the record.
C10_Step ==
    /\ (queue # <<>> /\ Head(queue) = BadListener /\ queue' = Tail(queue))
          => UNCHANGED <<threadVars, fieldVars, osVars, scheduled>>
    /\ \/ queue' = queue
       \/ queue # <<>> /\ queue' = Tail(queue)
       \/ \E l \in log_listeners : queue' = Append(queue, l)
    /\ (tpc = "iter" /\ tpc' # "iter")
          => \/ tpc' = "warn" /\ exc' = "RuntimeError"
                /\ Cardinality(log_listeners) # iterUsed
             \/ /\ tpc' = "readline"
                /\ \A l \in log_listeners :
                      /\ scheduled[l] # <<>>
                      /\ scheduled[l][Len(scheduled[l])] = emitted[process]

C10_ListenerFailureIsolated == [][C10_Step]_vars

\* Both coroutines of BadListener have run, process_log got both records,
\* the reader is back at readline on the first worker, nothing restarted.
C10_Witness ==
    /\ scheduled[BadListener] = <<1, 2>>
    /\ scheduled[ProcessLogListener] = <<1, 2>>
    /\ queue = <<>>
    /\ tpc = "readline"
    /\ process = 1
    /\ restarted = 0

\* C11: while line 150 iterates over self.log_listeners for a record, a
\* listen_log() call from another thread adds its listener, and the
\* iteration still ends normally: the thread goes on to the next readline
\* of the same worker, nothing is caught at line 107 and self.restarted
\* stays as it was.
C11_Step ==
    /\ (tpc = "iter" /\ log_listeners' # log_listeners)
          => \E l \in Listeners : log_listeners' = log_listeners \cup {l}
    /\ tpc = "iter"
          => /\ tpc' \in {"iter", "readline"}
             /\ exc' = "none"
             /\ process' = process
             /\ restarted' = restarted

C11_ConcurrentListenIsSafe == [][C11_Step]_vars

\* C12: listen_log returns its argument, and calling it again with a
\* listener leaves the set as the first call left it, with everything
\* else that was registered still in it; line 150 therefore schedules a
\* listener at most once for a record, however often it was registered.
C12_ListenIdempotent ==
    /\ \A l \in Listeners :
          /\ listen_log(log_listeners, l).result = l
          /\ l \in listen_log(log_listeners, l).log_listeners
          /\ log_listeners \subseteq listen_log(log_listeners, l).log_listeners
          /\ listen_log(listen_log(log_listeners, l).log_listeners, l)
                = [listen_log(log_listeners, l) EXCEPT !.result = l]
          /\ l \in log_listeners
                => listen_log(log_listeners, l).log_listeners = log_listeners
    /\ \A l \in Listeners : \A i, j \in 1..Len(scheduled[l]) :
          i < j => scheduled[l][i] < scheduled[l][j]

\* listen_log added a second listener, and both were scheduled once for
\* each of two records.
C12_Witness ==
    /\ log_listeners = Listeners
    /\ \A l \in Listeners : scheduled[l] = <<1, 2>>
    /\ log_counter = 2

\* C17: for every line, ProcessLog(...) of lines 145-149 returns a record
\* and does not raise.
C17_BuildingNeverRaises ==
    ret.op = "ProcessLog" => (ret.tag = "ok" /\ Len(ret.log) = 1)

\* C18: for a line that LOG_REGEX matches, the record has the stripped
\* line as raw and the groups as level and message; for any other line
\* it has the stripped line as raw, and level and message are None.
C18_RecordFields ==
    ret.op = "ProcessLog" =>
        LET raw == strip(ret.output)
            log_matched == LOG_REGEX(raw)
        IN  /\ ret.tag = "ok"
            /\ ret.log[1].raw = raw
            /\ ret.log[1].level =
                    IF log_matched = None THEN None
                    ELSE <<log_matched[1].level>>
            /\ ret.log[1].message =
                    IF log_matched = None THEN None
                    ELSE <<log_matched[1].message>>

\* C13: whatever _daemon_thread_runner raises is caught at line 107 and
\* the iteration goes on as for an exit with code 0: warning, increment,
\* sleep, then the tests of lines 100-103.  The thread ends only at those
\* tests, because the run flag is false or the budget is used up.
C13_Step ==
    /\ exc' # "none" => (tpc' = "warn" /\ code' = 0)
    /\ (tpc # "warn" /\ tpc' = "warn" /\ exc' = "none")
          => (tpc \in {"readline", "wait"} /\ code' = returncode(process)')
    /\ tpc = "warn" => tpc' \in {"warn", "sleep"}
    /\ tpc = "sleep" => tpc' \in {"sleep", "loop"}
    /\ (tpc # "done" /\ tpc' = "done")
          => /\ tpc = "loop"
             /\ \/ daemon_thread_running = "false" /\ stopCalled
                \/ Bounded /\ loopIdx >= max_restarts

C13_FailuresAreCaught == [][C13_Step]_vars

\* An iteration ended with the worker still running, so by a failure, and
\* the loop went on to spawn and read the next worker.
C13_Witness ==
    /\ tpc = "readline"
    /\ process = 2
    /\ osState[1] = "running"
    /\ restarted = 1
    /\ ~stopCalled

\* C14: a stop() call returns, whatever the thread and the worker do; its
\* return ends neither the thread nor a worker; on an instance that was
\* never started it changes nothing but the run flag.
C14_Step ==
    (stopPc = "terminate" /\ stopPc' = "idle")
        => /\ tpc' = tpc
           /\ \A w \in Workers : osState[w] = "running" => osState'[w] = "running"
           /\ tpc = "unstarted" => UNCHANGED <<threadVars, fieldVars, osVars>>

C14_StopReturns ==
    /\ [][C14_Step]_vars
    /\ (stopPc = "terminate") ~> (stopPc = "idle")

\* stop() has returned; the worker was sent SIGTERM and still runs, and
\* the thread still waits for its output.
C14_Witness ==
    /\ stopCalled
    /\ stopPc = "idle"
    /\ daemon_thread_running = "false"
    /\ tpc = "readline"
    /\ process # NoProcess
    /\ osState[process] = "running"
    /\ signalled[process]

\* C15: an iteration that ends while the run flag is false ends the loop
\* without the increment of line 116 and without the sleep of line 117.
C15_NoIncrementOnStop ==
    [][(tpc = "warn" /\ daemon_thread_running = "false")
          => (restarted' = restarted /\ tpc' # "sleep")]_vars

\* C16: with max_restarts < 0 and no stop() call the thread never ends,
\* and once the worker has exited or an iteration has failed, the thread
\* comes to spawn the next worker (or, with MaxSpawns workers spawned, to
\* the Popen call that would).
C16_NeverStops ==
    /\ []((max_restarts < 0 /\ ~stopCalled) => tpc # "done")
    /\ \A w \in Workers :
          (/\ max_restarts < 0
           /\ process = w
           /\ osState[w] # "running" \/ tpc = "warn")
             ~> \/ stopCalled
                \/ process > w
                \/ tpc = "popen" /\ NumSpawned = MaxSpawns

\* The first worker exited and was reaped, and the second one runs.
C16_Witness ==
    /\ max_restarts < 0
    /\ ~stopCalled
    /\ process = 2
    /\ osState[1] = "reaped"
    /\ osState[2] = "running"
    /\ restarted = 1

\* C19: at most one of the workers the thread spawned is running.
C19_OneWorkerAlive ==
    Cardinality({w \in Workers : osState[w] = "running"}) <= 1

\* C20: on an instance whose thread was started, no step sets the run
\* flag to true again.
C20_SecondStartChangesNothing ==
    [][(tpc # "unstarted" /\ daemon_thread_running # "true")
          => daemon_thread_running' # "true"]_vars

====
